---- MODULE Spec2Model ----
(***************************************************************************)
(* Model of arxiv_paper_hunter: the harvester's pagination loop            *)
(* (harvester.py), the gatekeeper's three-tier cascade (gatekeeper.py) and *)
(* the orchestrator loop of main.py with its summary stage.  The abstract  *)
(* translation and Telegram stage of main.py (lines 177-215) is left out.  *)
(***************************************************************************)
EXTENDS Integers, Sequences, FiniteSets, TLC

(* ---------------- bounds ---------------- *)
MaxPageSize == 3
MaxResults == 4
MaxAuthors == 2
MaxPapers == 3
MaxLimit == 2
MaxRunPageSize == 2
MaxRunResults == 2

(* ---------------- generic helpers ---------------- *)
None == "None"

Min(a, b) == IF a < b THEN a ELSE b

(* ---------------- texts ---------------- *)
(* a text is a sequence of characters; an optional value is <<>> or <<v>> *)
Absent == <<>>

Some(v) == <<v>>

UpperAlphabet == <<"A","B","C","D","E","F","G","H","I","J","K","L","M","N","O","P","Q","R","S","T","U","V","W","X","Y","Z">>

LowerAlphabet == <<"a","b","c","d","e","f","g","h","i","j","k","l","m","n","o","p","q","r","s","t","u","v","w","x","y","z">>

(* str.lower on the letters, as a table *)
LowerTable ==
    [c \in {UpperAlphabet[n] : n \in 1..Len(UpperAlphabet)} |->
        LowerAlphabet[CHOOSE n \in 1..Len(UpperAlphabet) : UpperAlphabet[n] = c]]

(* str.lower on one character *)
LowerChar(c) == IF c \in DOMAIN LowerTable THEN LowerTable[c] ELSE c

(* str.lower *)
Lower(text) == [k \in 1..Len(text) |-> LowerChar(text[k])]

TxtGoogle == <<"g","o","o","g","l","e">>

TxtMeta == <<"m","e","t","a">>

TxtCTR == <<"C","T","R">>

TxtMetaAI == <<"M","e","t","a"," ","A","I">>

TxtMIT == <<"M","I","T">>

TxtAnn == <<"A","n","n">>

TxtBo == <<"B","o">>

TxtMetaxas == <<"M","e","t","a","x","a","s">>

TxtGoogleCTR == <<"G","o","o","g","l","e"," ","C","T","R">>

TxtRec == <<"R","e","c">>

TxtMetadata == <<"m","e","t","a","d","a","t","a">>

TxtCtrModel == <<"c","t","r"," ","m","o","d","e","l">>

TxtMailMeta == <<"a","@","M","E","T","A",".","c","o","m">>

TxtMailMIT == <<"a","@","m","i","t",".","e","d","u">>

TxtLLMVote == <<"L","L","M"," ","v","o","t","e">>

(* transport failure marker of a page of the feed (non-2xx, unparsable) *)
PageFails == -1

VARIABLES
    pageSize,     \* cfg.page_size
    maxResults,   \* cfg.max_results
    feed,         \* the upstream: feed[i] = records available to the i-th request, or PageFails
    start,        \* search(): local start
    spapers,      \* search(): local papers (accumulator)
    reqs,         \* page requests issued so far, each [start, max_results]
    resps,        \* pages returned so far
    spc,          \* search(): "loop" | "returned" | "raised"
    gpaper,       \* Gatekeeper.filter: argument paper
    gemail,       \* Gatekeeper.filter: argument email_text (optional text)
    gllm,         \* Gatekeeper.filter: argument llm_checker, as the reply it would give
    gresult,      \* Gatekeeper.filter: what the call did, [outcome, llm_calls, raised]
    gpc,          \* "call" | "returned"
    use_llm_filter,         \* args.use_llm_filter
    skip_gatekeeper,        \* args.skip_gatekeeper
    require_keyword_match,  \* args.require_keyword_match
    limit,                  \* args.limit; 0 stands for the default None (both falsy)
    no_summary,             \* args.no_summary
    api_key,                \* analyst.config.api_key is set
    papers,       \* main(): papers, the list harvester.search() returned
    pos,          \* main(): position of the for loop over papers
    accepted,     \* main(): accepted
    downloaded,   \* main(): downloaded
    plog,         \* what each loop iteration did, in order
    spos,         \* main(): position of the summary loop over downloaded
    sattempts,    \* calls of analyst.summarize_pdf, in order, with their result
    summary_md,   \* blocks appended to Summary.md by this run
    pc            \* main(): "harvest" | "loop" | "summary" | "finished" | "aborted"

svars == <<pageSize, maxResults, feed, start, spapers, reqs, resps, spc>>

gvars == <<gpaper, gemail, gllm, gresult, gpc>>

cvars == <<use_llm_filter, skip_gatekeeper, require_keyword_match, limit, no_summary, api_key>>

mvars == <<cvars, papers, pos, accepted, downloaded, plog, spos, sattempts, summary_md, pc>>

vars == <<svars, gvars, mvars>>

(* ---------------- harvester.py ---------------- *)

(* records start+1 .. start+n of the result set *)
Records(from, n) == [j \in 1..n |-> from + j]

(* _fetch_chunk: the i-th request, for max_results records from offset start;
   the remote API returns at most max_results records *)
FetchChunk(i, from, max_results) == Records(from, Min(feed[i], max_results))

(* the max_results argument search passes to _fetch_chunk *)
RequestSize(from) == pageSize

(* the while condition with <= in place of <: one more request at the cap *)
SearchContinues_Inclusive == start <= maxResults

(* while condition of search *)
SearchContinues == start < maxResults

(* ShortChunk with <= in place of <: a full page would end the loop *)
ShortChunk_OffByOne(chunk) == Len(chunk) <= pageSize

(* the chunk ends the loop after being appended *)
ShortChunk(chunk) == Len(chunk) < pageSize

SearchInit ==
    /\ pageSize \in 1..MaxPageSize
    /\ maxResults \in 0..MaxResults
    /\ feed \in [1..MaxResults -> PageFails..pageSize]
    /\ start = 0
    /\ spapers = <<>>
    /\ reqs = <<>>
    /\ resps = <<>>
    /\ spc = "loop"

(* the loop condition is false: search returns papers *)
SearchReturn ==
    /\ spc = "loop"
    /\ ~SearchContinues
    /\ spc' = "returned"
    /\ UNCHANGED <<pageSize, maxResults, feed, start, spapers, reqs, resps>>
    /\ UNCHANGED <<gvars, mvars>>

(* a failed page with the failure caught and the papers so far returned *)
OnPageFailure_ReturnsPartial == "returned"

(* search has no handler around _fetch_chunk: the exception leaves search *)
OnPageFailure == "raised"

(* raise_for_status / ET.fromstring raises: search propagates, nothing returned *)
SearchFetchFails ==
    /\ spc = "loop"
    /\ SearchContinues
    /\ feed[Len(reqs) + 1] = PageFails
    /\ reqs' = Append(reqs, [start |-> start, max_results |-> RequestSize(start)])
    /\ spc' = OnPageFailure
    /\ UNCHANGED <<pageSize, maxResults, feed, start, spapers, resps>>
    /\ UNCHANGED <<gvars, mvars>>

(* one iteration of the while loop with a page that was delivered *)
SearchFetch ==
    /\ spc = "loop"
    /\ SearchContinues
    /\ feed[Len(reqs) + 1] # PageFails
    /\ LET size == RequestSize(start)
           chunk == FetchChunk(Len(reqs) + 1, start, size)
       IN /\ reqs' = Append(reqs, [start |-> start, max_results |-> size])
          /\ resps' = Append(resps, chunk)
          /\ IF chunk = <<>>
                THEN /\ spc' = "returned"
                     /\ UNCHANGED <<start, spapers>>
                ELSE /\ spapers' = spapers \o chunk
                     /\ IF ShortChunk(chunk)
                           THEN /\ spc' = "returned"
                                /\ UNCHANGED start
                           ELSE /\ start' = start + pageSize
                                /\ spc' = "loop"
    /\ UNCHANGED <<pageSize, maxResults, feed>>
    /\ UNCHANGED <<gvars, mvars>>

SearchNext == SearchReturn \/ SearchFetchFails \/ SearchFetch

(* ---------------- gatekeeper.py ---------------- *)

(* entries of default_company_whitelist *)
CompanyWhitelist == <<TxtGoogle, TxtMeta>>

(* compile_company_pattern: "|".join of the lowercased, escaped names;
   the join of no names is the empty pattern *)
CompilePattern(companies) ==
    IF companies = <<>> THEN << <<>> >>
    ELSE [k \in 1..Len(companies) |-> Lower(companies[k])]

(* Gatekeeper.__init__: self.pattern *)
Pattern == CompilePattern(CompanyWhitelist)

(* a literal alternative matches text at position p under re.IGNORECASE *)
MatchesAt(text, p, alt) ==
    /\ p + Len(alt) - 1 <= Len(text)
    /\ \A k \in 1..Len(alt) : LowerChar(text[p + k - 1]) = LowerChar(alt[k])

(* pattern.search(text): leftmost position, first alternative that matches
   there; Absent, or Some(match.group(0)) *)
PatternSearch(pattern, text) ==
    LET hits == {p \in 1..(Len(text) + 1) :
                    \E a \in 1..Len(pattern) : MatchesAt(text, p, pattern[a])}
    IN IF hits = {} THEN Absent
       ELSE LET p == CHOOSE q \in hits : \A r \in hits : q <= r
                a == CHOOSE b \in 1..Len(pattern) :
                        /\ MatchesAt(text, p, pattern[b])
                        /\ \A c \in 1..(b - 1) : ~MatchesAt(text, p, pattern[c])
            IN Some(SubSeq(text, p, p + Len(pattern[a]) - 1))

(* dataclass FilterOutcome *)
FilterOutcome(acc, level, company, evidence) ==
    [accepted |-> acc, level |-> level, company |-> company, evidence |-> evidence]

(* FilterOutcome(accepted=False) *)
Rejected == FilterOutcome(FALSE, None, Absent, Absent)

RECURSIVE Affiliations(_)
(* the affiliations that are set, in author order *)
Affiliations(authors) ==
    IF authors = <<>> THEN <<>>
    ELSE (IF Head(authors).affiliation # <<>> THEN <<Head(authors).affiliation>> ELSE <<>>)
         \o Affiliations(Tail(authors))

RECURSIVE Join(_, _)
(* sep.join(parts) *)
Join(sep, parts) ==
    IF parts = <<>> THEN <<>>
    ELSE IF Len(parts) = 1 THEN parts[1]
    ELSE parts[1] \o sep \o Join(sep, Tail(parts))

AuthorNames(authors) == [k \in 1..Len(authors) |-> authors[k].name]

(* meta_fields with the title put before the affiliations *)
MetaFields_TitleFirst(paper) ==
    <<paper.title>> \o Affiliations(paper.authors)
        \o <<Join(<<" ">>, AuthorNames(paper.authors)), paper.summary>>

(* meta_fields of Gatekeeper.filter *)
MetaFields(paper) ==
    Affiliations(paper.authors)
        \o <<Join(<<" ">>, AuthorNames(paper.authors)), paper.title, paper.summary>>

(* level 1: the first field of meta_fields that the pattern matches *)
MetadataTier(paper) ==
    LET fields == MetaFields(paper)
        hits == {i \in 1..Len(fields) : PatternSearch(Pattern, fields[i]) # Absent}
    IN IF hits = {} THEN Absent
       ELSE LET i == CHOOSE j \in hits : \A k \in hits : j <= k
            IN Some(FilterOutcome(TRUE, "metadata",
                                  PatternSearch(Pattern, fields[i]), Some(fields[i])))

(* level 2: email_text, when given and not empty *)
EmailTier(email_text) ==
    IF email_text # Absent /\ email_text[1] # <<>>
          /\ PatternSearch(Pattern, email_text[1]) # Absent
       THEN Some(FilterOutcome(TRUE, "email",
                               PatternSearch(Pattern, email_text[1]), Some(email_text[1])))
       ELSE Absent

(* level 3: llm is "absent" when no llm_checker is given, else what the
   checker does when called: returns True, False or None, or raises *)
LlmReplies == {"True", "False", "NoneReply", "raise"}

(* LlmTier with a positive vote dropped *)
LlmTier_VoteDropped(llm) ==
    IF llm = "absent"
       THEN [outcome |-> Rejected, llm_calls |-> 0, raised |-> FALSE]
       ELSE [outcome |-> Rejected, llm_calls |-> 1, raised |-> FALSE]

(* LlmTier without the try/except around the checker *)
LlmTier_NoCatch(llm) ==
    IF llm = "absent"
       THEN [outcome |-> Rejected, llm_calls |-> 0, raised |-> FALSE]
    ELSE IF llm = "True"
       THEN [outcome |-> FilterOutcome(TRUE, "llm", Absent, Some(TxtLLMVote)),
             llm_calls |-> 1, raised |-> FALSE]
       ELSE [outcome |-> Rejected, llm_calls |-> 1, raised |-> llm = "raise"]

LlmTier(llm) ==
    IF llm = "absent"
       THEN [outcome |-> Rejected, llm_calls |-> 0, raised |-> FALSE]
    ELSE IF llm = "True"
       THEN [outcome |-> FilterOutcome(TRUE, "llm", Absent, Some(TxtLLMVote)),
             llm_calls |-> 1, raised |-> FALSE]
       ELSE [outcome |-> Rejected, llm_calls |-> 1, raised |-> FALSE]

(* the cascade with levels 1 and 2 swapped *)
GatekeeperFilter_EmailFirst(paper, email_text, llm) ==
    IF EmailTier(email_text) # Absent
       THEN [outcome |-> EmailTier(email_text)[1], llm_calls |-> 0, raised |-> FALSE]
    ELSE IF MetadataTier(paper) # Absent
       THEN [outcome |-> MetadataTier(paper)[1], llm_calls |-> 0, raised |-> FALSE]
    ELSE LlmTier(llm)

(* the cascade with the checker called before the metadata scan returns *)
GatekeeperFilter_EagerLlm(paper, email_text, llm) ==
    IF MetadataTier(paper) # Absent
       THEN [outcome |-> MetadataTier(paper)[1], llm_calls |-> LlmTier(llm).llm_calls,
             raised |-> FALSE]
    ELSE IF EmailTier(email_text) # Absent
       THEN [outcome |-> EmailTier(email_text)[1], llm_calls |-> 0, raised |-> FALSE]
    ELSE LlmTier(llm)

(* Gatekeeper.filter *)
GatekeeperFilter(paper, email_text, llm) ==
    IF MetadataTier(paper) # Absent
       THEN [outcome |-> MetadataTier(paper)[1], llm_calls |-> 0, raised |-> FALSE]
    ELSE IF EmailTier(email_text) # Absent
       THEN [outcome |-> EmailTier(email_text)[1], llm_calls |-> 0, raised |-> FALSE]
    ELSE LlmTier(llm)

(* inputs of the gatekeeper *)
AuthorPool ==
    { [name |-> TxtAnn, affiliation |-> TxtMetaAI],
      [name |-> TxtBo, affiliation |-> <<>>],
      [name |-> TxtMetaxas, affiliation |-> TxtMIT] }

AuthorLists == UNION {[1..n -> AuthorPool] : n \in 0..MaxAuthors}

Titles == {TxtGoogleCTR, TxtRec}

Summaries == {TxtMetadata, TxtCtrModel}

GatePapers ==
    { [authors |-> a, title |-> t, summary |-> s] :
        a \in AuthorLists, t \in Titles, s \in Summaries }

EmailTexts == {Absent, Some(<<>>), Some(TxtMailMeta), Some(TxtMailMIT)}

NoResult == [outcome |-> Rejected, llm_calls |-> 0, raised |-> FALSE]

GateInit ==
    /\ gpaper \in GatePapers
    /\ gemail \in EmailTexts
    /\ gllm \in LlmReplies \cup {"absent"}
    /\ gresult = NoResult
    /\ gpc = "call"

(* one call of gatekeeper.filter(paper, email_text, llm_checker) *)
GateFilter ==
    /\ gpc = "call"
    /\ gresult' = GatekeeperFilter(gpaper, gemail, gllm)
    /\ gpc' = "returned"
    /\ UNCHANGED <<gpaper, gemail, gllm>>
    /\ UNCHANGED <<svars, mvars>>

(* ---------------- main.py, archivist.py, pdf_assets.py, analyst.py ---------------- *)

(* app_cfg.search.keywords *)
Keywords == <<TxtCTR>>

(* sub in text *)
Contains(text, sub) ==
    \E p \in 1..(Len(text) + 1) :
        /\ p + Len(sub) - 1 <= Len(text)
        /\ \A n \in 1..Len(sub) : text[p + n - 1] = sub[n]

(* keyword_hit *)
KeywordHit(paper) ==
    LET text == Lower(paper.title \o <<" ">> \o paper.summary)
    IN \E n \in 1..Len(Keywords) : Contains(text, Lower(Keywords[n]))

(* what the chat completion behind analyst.llm_vote_is_industry does when called *)
ChatReplies == {"True", "False", "raise"}

(* llm_checker without the test of args.use_llm_filter *)
LlmChecker_Unconditional(use_llm, has_key, chat) ==
    IF ~has_key THEN "False" ELSE chat

(* llm_checker: the lambda of main around analyst.llm_vote_is_industry;
   the reply it gives when called *)
LlmChecker(use_llm, has_key, chat) ==
    IF ~use_llm THEN "NoneReply"
    ELSE IF ~has_key THEN "False"
    ELSE chat

(* calls of analyst.llm_vote_is_industry made by calls of llm_checker *)
VoteCalls(use_llm, checker_calls) == IF use_llm THEN checker_calls ELSE 0

(* the chat completion is requested by a call of llm_checker *)
ChatRequested(use_llm, has_key) == use_llm /\ has_key

(* the outcome of a paper in the loop of main: bypass or gatekeeper.filter
   with email_text=None *)
Classify(paper, skip, use_llm, has_key, chat) ==
    IF skip
       THEN [outcome |-> FilterOutcome(TRUE, "skipped", Absent, Absent),
             llm_calls |-> 0, raised |-> FALSE]
       ELSE GatekeeperFilter(paper, Absent, LlmChecker(use_llm, has_key, chat))

(* Archivist.download_pdf: "path" or "raise"; transport is what the
   request for the PDF does *)
Transports == {"ok", "raise"}

DownloadPdf(paper, transport) ==
    IF ~paper.pdf_url THEN "raise"
    ELSE IF transport = "ok" THEN "path" ELSE "raise"

(* extract_first_page_image: "cover", "None" or "raise", by what it meets *)
AssetEnvs == {"no_fitz", "mkdir_fails", "no_pages", "render_fails", "ok"}

ExtractFirstPageImage(env) ==
    IF env = "no_fitz" THEN "None"
    ELSE IF env = "mkdir_fails" THEN "raise"
    ELSE IF env = "ok" THEN "cover"
    ELSE "None"

(* LimitReached with > in place of >= *)
LimitReached_Late(lim, acc) == lim # 0 /\ acc > lim

(* if args.limit and accepted >= args.limit *)
LimitReached(lim, acc) == lim # 0 /\ acc >= lim

(* the summary stage calls summarize_pdf *)
SummaryEnabled(nosum, has_key) == ~nosum /\ has_key

(* the summary loop without its try/except *)
AfterSummaryFailure_Propagates == "aborted"

(* the summary loop after a summarize_pdf that raised *)
AfterSummaryFailure == "summary"

(* harvested papers, by arxiv_id *)
Catalog ==
    [title_hit |->
        [authors |-> <<[name |-> TxtBo, affiliation |-> <<>>]>>,
         title |-> TxtGoogleCTR, summary |-> TxtCtrModel, pdf_url |-> TRUE],
     plain |->
        [authors |-> <<[name |-> TxtBo, affiliation |-> <<>>]>>,
         title |-> TxtRec, summary |-> TxtCtrModel, pdf_url |-> TRUE],
     no_pdf |->
        [authors |-> <<[name |-> TxtAnn, affiliation |-> TxtMetaAI]>>,
         title |-> TxtRec, summary |-> TxtMetadata, pdf_url |-> FALSE]]

PaperIds == DOMAIN Catalog

PaperLists == UNION {[1..n -> PaperIds] : n \in 0..MaxPapers}

(* keyword_hit and the outcome of the papers of the catalog, evaluated once *)
KeywordHitOf == [id \in PaperIds |-> KeywordHit(Catalog[id])]

ClassifyOf ==
    [id \in PaperIds, skip \in BOOLEAN, use_llm \in BOOLEAN, has_key \in BOOLEAN,
     chat \in ChatReplies |-> Classify(Catalog[id], skip, use_llm, has_key, chat)]

(* what download_pdf and extract_first_page_image can do for a paper *)
DownloadsOf == [id \in PaperIds |-> {DownloadPdf(Catalog[id], tr) : tr \in Transports}]

Covers == {ExtractFirstPageImage(env) : env \in AssetEnvs}

MainInit ==
    /\ use_llm_filter \in BOOLEAN
    /\ skip_gatekeeper \in BOOLEAN
    /\ require_keyword_match \in BOOLEAN
    /\ limit \in 0..MaxLimit
    /\ no_summary \in BOOLEAN
    /\ api_key \in BOOLEAN
    /\ papers = <<>>
    /\ pos = 1
    /\ accepted = 0
    /\ downloaded = <<>>
    /\ plog = <<>>
    /\ spos = 1
    /\ sattempts = <<>>
    /\ summary_md = <<>>
    /\ pc = "harvest"

(* papers = harvester.search() *)
Harvest ==
    /\ pc = "harvest"
    /\ papers' \in PaperLists
    /\ pc' = "loop"
    /\ UNCHANGED <<cvars, pos, accepted, downloaded, plog, spos, sattempts, summary_md>>
    /\ UNCHANGED <<svars, gvars>>

(* harvester.search() raises: main propagates *)
HarvestRaises ==
    /\ pc = "harvest"
    /\ pc' = "aborted"
    /\ UNCHANGED <<cvars, papers, pos, accepted, downloaded, plog, spos, sattempts, summary_md>>
    /\ UNCHANGED <<svars, gvars>>

LogEntry(stage, res, chat, download, asset) ==
    [stage |-> stage, outcome |-> res.outcome,
     llm_calls |-> res.llm_calls, votes |-> VoteCalls(use_llm_filter, res.llm_calls), chat |-> chat, download |-> download, asset |-> asset]

(* what the chat completion did in this iteration, "none" when not requested *)
Said(res, chat) ==
    IF res.llm_calls > 0 /\ ChatRequested(use_llm_filter, api_key) THEN chat ELSE "none"

(* the counter left as it was after an append *)
CountAccepted_Forgotten(acc) == acc

(* accepted += 1, after the try block has appended to downloaded *)
CountAccepted(acc) == acc + 1

(* iteration: the keyword post-filter drops the paper *)
LoopKeywordSkip ==
    /\ pc = "loop"
    /\ pos <= Len(papers)
    /\ require_keyword_match /\ ~KeywordHitOf[papers[pos]]
    /\ plog' = Append(plog, LogEntry("skipped-by-keyword", NoResult, "none", "none", "none"))
    /\ pos' = pos + 1
    /\ UNCHANGED <<cvars, papers, accepted, downloaded, spos, sattempts, summary_md, pc>>
    /\ UNCHANGED <<svars, gvars>>

(* iteration: the outcome is not accepted *)
LoopFilterSkip ==
    /\ pc = "loop"
    /\ pos <= Len(papers)
    /\ ~(require_keyword_match /\ ~KeywordHitOf[papers[pos]])
    /\ \E chat \in ChatReplies :
         LET res == ClassifyOf[papers[pos], skip_gatekeeper, use_llm_filter, api_key, chat]
         IN /\ res.raised \/ ~res.outcome.accepted
            /\ plog' = Append(plog, LogEntry("skipped-by-filter", res,
                                             Said(res, chat), "none", "none"))
            /\ IF res.raised
                  THEN pc' = "aborted" /\ UNCHANGED pos
                  ELSE pc' = pc /\ pos' = pos + 1
    /\ UNCHANGED <<cvars, papers, accepted, downloaded, spos, sattempts, summary_md>>
    /\ UNCHANGED <<svars, gvars>>

(* iteration: download_pdf or extract_first_page_image raises *)
LoopDownloadFails ==
    /\ pc = "loop"
    /\ pos <= Len(papers)
    /\ ~(require_keyword_match /\ ~KeywordHitOf[papers[pos]])
    /\ \E chat \in ChatReplies :
         LET res == ClassifyOf[papers[pos], skip_gatekeeper, use_llm_filter, api_key, chat]
         IN /\ ~res.raised /\ res.outcome.accepted
            /\ \E pdf \in DownloadsOf[papers[pos]] :
                 \E cover \in IF pdf = "path" THEN Covers ELSE {"none"} :
                    /\ pdf = "raise" \/ cover = "raise"
                    /\ plog' = Append(plog, LogEntry("failed-download", res,
                                                     Said(res, chat), pdf, cover))
    /\ pos' = pos + 1
    /\ UNCHANGED <<cvars, papers, accepted, downloaded, spos, sattempts, summary_md, pc>>
    /\ UNCHANGED <<svars, gvars>>

(* iteration: the paper is downloaded and appended; the limit may end the loop *)
LoopAccept ==
    /\ pc = "loop"
    /\ pos <= Len(papers)
    /\ ~(require_keyword_match /\ ~KeywordHitOf[papers[pos]])
    /\ \E chat \in ChatReplies :
         LET res == ClassifyOf[papers[pos], skip_gatekeeper, use_llm_filter, api_key, chat]
         IN /\ ~res.raised /\ res.outcome.accepted
            /\ \E pdf \in DownloadsOf[papers[pos]] :
                 \E cover \in IF pdf = "path" THEN Covers ELSE {"none"} :
                    /\ pdf = "path" /\ cover # "raise"
                    /\ plog' = Append(plog, LogEntry("downloaded", res,
                                                     Said(res, chat), pdf, cover))
                    /\ downloaded' = Append(downloaded,
                           [paper |-> pos, outcome |-> res.outcome, pdf_path |-> pos,
                            cover_image |-> IF cover = "cover" THEN Some(pos) ELSE Absent])
    /\ accepted' = CountAccepted(accepted)
    /\ IF LimitReached(limit, accepted')
          THEN pc' = "summary" /\ UNCHANGED pos
          ELSE pc' = pc /\ pos' = pos + 1
    /\ UNCHANGED <<cvars, papers, spos, sattempts, summary_md>>
    /\ UNCHANGED <<svars, gvars>>

(* the for loop over papers is exhausted *)
LoopEnd ==
    /\ pc = "loop"
    /\ pos > Len(papers)
    /\ pc' = "summary"
    /\ UNCHANGED <<cvars, papers, pos, accepted, downloaded, plog, spos, sattempts, summary_md>>
    /\ UNCHANGED <<svars, gvars>>

(* --no-summary, or no API key: no paper is summarized *)
SummarySkipped ==
    /\ pc = "summary"
    /\ ~SummaryEnabled(no_summary, api_key)
    /\ pc' = "finished"
    /\ UNCHANGED <<cvars, papers, pos, accepted, downloaded, plog, spos, sattempts, summary_md>>
    /\ UNCHANGED <<svars, gvars>>

(* one iteration of the summary loop: summarize_pdf and write_summary_markdown *)
SummarizePaper ==
    /\ pc = "summary"
    /\ SummaryEnabled(no_summary, api_key)
    /\ spos <= Len(downloaded)
    /\ \E result \in {"ok", "raise"} :
         /\ sattempts' = Append(sattempts, [paper |-> downloaded[spos].paper, result |-> result])
         /\ IF result = "ok"
               THEN /\ summary_md' = Append(summary_md, downloaded[spos].paper)
                    /\ pc' = pc
               ELSE /\ UNCHANGED summary_md
                    /\ pc' = AfterSummaryFailure
    /\ spos' = spos + 1
    /\ UNCHANGED <<cvars, papers, pos, accepted, downloaded, plog>>
    /\ UNCHANGED <<svars, gvars>>

(* the summary loop is exhausted *)
SummaryEnd ==
    /\ pc = "summary"
    /\ SummaryEnabled(no_summary, api_key)
    /\ spos > Len(downloaded)
    /\ pc' = "finished"
    /\ UNCHANGED <<cvars, papers, pos, accepted, downloaded, plog, spos, sattempts, summary_md>>
    /\ UNCHANGED <<svars, gvars>>

MainIdle ==
    /\ use_llm_filter = FALSE
    /\ skip_gatekeeper = FALSE
    /\ require_keyword_match = FALSE
    /\ limit = 0
    /\ no_summary = FALSE
    /\ api_key = FALSE
    /\ papers = <<>>
    /\ pos = 1
    /\ accepted = 0
    /\ downloaded = <<>>
    /\ plog = <<>>
    /\ spos = 1
    /\ sattempts = <<>>
    /\ summary_md = <<>>
    /\ pc = "idle"

GateIdle ==
    /\ gpaper = [authors |-> <<>>, title |-> <<>>, summary |-> <<>>]
    /\ gemail = Absent
    /\ gllm = "absent"
    /\ gresult = NoResult
    /\ gpc = "idle"

SearchIdle ==
    /\ pageSize = 1
    /\ maxResults = 0
    /\ feed = <<>>
    /\ start = 0
    /\ spapers = <<>>
    /\ reqs = <<>>
    /\ resps = <<>>
    /\ spc = "idle"

(* ---------------- the whole run: search, then the loop of main ---------------- *)

RunSearchInit ==
    /\ pageSize \in 1..MaxRunPageSize
    /\ maxResults \in 0..MaxRunResults
    /\ feed \in [1..MaxRunResults -> PageFails..pageSize]
    /\ start = 0
    /\ spapers = <<>>
    /\ reqs = <<>>
    /\ resps = <<>>
    /\ spc = "loop"

(* papers = harvester.search(), with search run to its return; what each
   record of the list holds is drawn from the catalog *)
RunHarvest ==
    /\ pc = "harvest"
    /\ spc = "returned"
    /\ papers' \in [1..Len(spapers) -> PaperIds]
    /\ pc' = "loop"
    /\ UNCHANGED <<cvars, pos, accepted, downloaded, plog, spos, sattempts, summary_md>>
    /\ UNCHANGED <<svars, gvars>>

(* harvester.search() raised: main has no handler, the run ends *)
RunHarvestRaises ==
    /\ pc = "harvest"
    /\ spc = "raised"
    /\ pc' = "aborted"
    /\ UNCHANGED <<cvars, papers, pos, accepted, downloaded, plog, spos, sattempts, summary_md>>
    /\ UNCHANGED <<svars, gvars>>

(* ---------------- properties of the harvester (SpecSearch) ---------------- *)

(* C1: the list search returns never holds more than maxResults papers *)
C1_ResultWithinCap == Len(spapers) <= maxResults

(* C2: every page request asks for min(pageSize, maxResults - offset) records;
   with 0 < maxResults < pageSize search issues exactly one request, for
   maxResults records *)
C2_RequestSizedToCap ==
    /\ \A n \in 1..Len(reqs) :
          reqs[n].max_results = Min(pageSize, maxResults - reqs[n].start)
    /\ (spc = "returned" /\ 0 < maxResults /\ maxResults < pageSize)
          => (Len(reqs) = 1 /\ reqs[1].max_results = maxResults)

(* the exactly-one-request half of C2, which the code does satisfy *)
C2_OneRequestBelowPageSize ==
    (spc = "returned" /\ 0 < maxResults /\ maxResults < pageSize) => Len(reqs) = 1

(* the feed delivers N full pages and then a page with fewer than pageSize records *)
FullThenShort(N) ==
    /\ N + 1 <= Len(feed)
    /\ \A n \in 1..N : feed[n] = pageSize
    /\ feed[N + 1] \in 0..(pageSize - 1)

RECURSIVE Flatten(_)
Flatten(pages) == IF pages = <<>> THEN <<>> ELSE Head(pages) \o Flatten(Tail(pages))

(* C3: N full pages, then a short page, maxResults > N * pageSize: exactly N+1
   requests at offsets 0, pageSize, ..., N * pageSize, and the result is the
   concatenation of the N+1 pages in request order *)
C3_FullPagesThenShort ==
    \A N \in 0..(Len(feed) - 1) :
        (FullThenShort(N) /\ maxResults > N * pageSize) =>
            /\ spc # "raised"
            /\ Len(reqs) <= N + 1
            /\ \A n \in 1..Len(reqs) : reqs[n].start = (n - 1) * pageSize
            /\ spc = "returned" =>
                  /\ Len(reqs) = N + 1
                  /\ Len(resps) = N + 1
                  /\ \A n \in 1..(N + 1) : resps[n] = Records((n - 1) * pageSize, feed[n])
                  /\ spapers = Flatten(resps)

C3_Witness ==
    /\ spc = "returned"
    /\ \E N \in 1..(Len(feed) - 1) :
          /\ FullThenShort(N)
          /\ maxResults > N * pageSize
          /\ feed[N + 1] > 0
          /\ Len(reqs) = N + 1

(* ceil(a / b) for b > 0 *)
Ceil(a, b) == (a + b - 1) \div b

(* the pages delivered so far: at most ceil(maxResults / pageSize) requests,
   none when maxResults = 0; an empty page is the last one and adds nothing,
   a short page is the last one and is appended *)
C15_Stops ==
    /\ Len(reqs) <= Ceil(maxResults, pageSize)
    /\ maxResults = 0 => reqs = <<>>
    /\ Len(resps) = Len(reqs)
    /\ \A n \in 1..Len(resps) :
          /\ resps[n] = <<>> =>
                /\ n = Len(resps)
                /\ spc = "returned"
                /\ spapers = Flatten(SubSeq(resps, 1, n - 1))
          /\ (resps[n] # <<>> /\ Len(resps[n]) < pageSize) =>
                /\ n = Len(resps)
                /\ spc = "returned"
                /\ spapers = Flatten(resps)

(* C15: while every page request returns, search makes at most
   ceil(maxResults / pageSize) requests, stops at the first empty page without
   appending and at the first short page after appending it, makes no request
   when maxResults = 0, and it terminates *)
C15_SearchTerminates ==
    /\ [](spc # "raised" => C15_Stops)
    /\ <>(spc # "loop")

(* the cap is met by full pages alone: ceil(maxResults / pageSize) requests *)
C15_Witness ==
    /\ spc = "returned"
    /\ Len(reqs) = Ceil(maxResults, pageSize)
    /\ Len(reqs) >= 2
    /\ \A n \in 1..Len(resps) : Len(resps[n]) = pageSize

(* ---------------- properties of the gatekeeper (SpecGate) ---------------- *)

(* a whitelist name occurs in the text, ignoring case *)
Mentions(text) ==
    \E w \in 1..Len(CompanyWhitelist) :
        \E p \in 1..Len(text) : MatchesAt(text, p, CompanyWhitelist[w])

(* a metadata field of the paper mentions a whitelist name *)
MetadataMentions(paper) ==
    \/ \E a \in 1..Len(paper.authors) : Mentions(paper.authors[a].affiliation)
    \/ Mentions(Join(<<" ">>, AuthorNames(paper.authors)))
    \/ Mentions(paper.title)
    \/ Mentions(paper.summary)

SideChannelMentions(email_text) == email_text # Absent /\ Mentions(email_text[1])

(* C4: tier precedence: only the side-channel text matches => level=email;
   a metadata field matches => level=metadata, whatever the side channel *)
C4_TierPrecedence ==
    gpc = "returned" =>
        /\ (~MetadataMentions(gpaper) /\ SideChannelMentions(gemail))
              => (gresult.outcome.accepted /\ gresult.outcome.level = "email")
        /\ MetadataMentions(gpaper)
              => (gresult.outcome.accepted /\ gresult.outcome.level = "metadata")

C4_Witness ==
    /\ gpc = "returned"
    /\ ~MetadataMentions(gpaper)
    /\ SideChannelMentions(gemail)
    /\ gresult.outcome.level = "email"

C4_WitnessBoth ==
    /\ gpc = "returned"
    /\ MetadataMentions(gpaper)
    /\ SideChannelMentions(gemail)
    /\ gresult.outcome.level = "metadata"

(* C5: the LLM checker is called at most once, and never when a metadata or
   side-channel match succeeded *)
C5_LlmShortCircuit ==
    gpc = "returned" =>
        /\ gresult.llm_calls <= 1
        /\ (MetadataMentions(gpaper) \/ SideChannelMentions(gemail))
              => gresult.llm_calls = 0

C5_Witness ==
    /\ gpc = "returned"
    /\ gllm = "True"
    /\ MetadataMentions(gpaper) \/ SideChannelMentions(gemail)
    /\ gresult.llm_calls = 0
    /\ gresult.outcome.level # "llm"

(* the fields in the order of the metadata tier: every author's affiliation
   (empty when there is none), the joined names, the title, the summary *)
ScanOrder(paper) ==
    [a \in 1..Len(paper.authors) |-> paper.authors[a].affiliation]
        \o <<Join(<<" ">>, AuthorNames(paper.authors)), paper.title, paper.summary>>

(* a whitelist name stands at position p of the text, ignoring case *)
NameAt(text, p) ==
    \E w \in 1..Len(CompanyWhitelist) : MatchesAt(text, p, CompanyWhitelist[w])

(* sub is the text's leftmost occurrence of a whitelist name, as the text spells it *)
LeftmostName(text, sub) ==
    \E p \in 1..Len(text) :
        /\ NameAt(text, p)
        /\ \A q \in 1..(p - 1) : ~NameAt(text, q)
        /\ p + Len(sub) - 1 <= Len(text)
        /\ SubSeq(text, p, p + Len(sub) - 1) = sub
        /\ \E w \in 1..Len(CompanyWhitelist) : Lower(sub) = Lower(CompanyWhitelist[w])

(* C13: the evidence is the full text of the first field, in scan order, that
   mentions a whitelist name, and the company is that field's matched substring *)
C13_ScanOrder ==
    (gpc = "returned" /\ MetadataMentions(gpaper)) =>
        LET order == ScanOrder(gpaper)
            f == CHOOSE n \in 1..Len(order) :
                    Mentions(order[n]) /\ \A m \in 1..(n - 1) : ~Mentions(order[m])
        IN /\ gresult.outcome.accepted
           /\ gresult.outcome.level = "metadata"
           /\ gresult.outcome.evidence = Some(order[f])
           /\ gresult.outcome.company # Absent
           /\ LeftmostName(order[f], gresult.outcome.company[1])

C13_Witness ==
    /\ gpc = "returned"
    /\ LET order == ScanOrder(gpaper)
       IN \E f \in 1..Len(order), g \in 1..Len(order) :
            /\ f < g
            /\ Mentions(order[f]) /\ Mentions(order[g])
            /\ \A m \in 1..(f - 1) : ~Mentions(order[m])
            /\ order[f] # order[g]
            /\ f > Len(gpaper.authors)
            /\ gresult.outcome.evidence = Some(order[f])

(* ---------------- properties of the orchestrator (Spec) ---------------- *)

(* C6: a raising LLM vote is a negative vote: the outcome is
   FilterOutcome(accepted=False), nothing propagates, the loop goes on *)
C6_LlmFailureIsNegativeVote ==
    \A j \in 1..Len(plog) :
        plog[j].chat = "raise" =>
            /\ plog[j].llm_calls = 1
            /\ plog[j].outcome = Rejected
            /\ plog[j].stage = "skipped-by-filter"
            /\ pc # "aborted"
            /\ pos > j

C6_Witness ==
    \E j \in 1..Len(plog) :
        /\ plog[j].chat = "raise"
        /\ Len(plog) > j
        /\ plog[j + 1].stage = "downloaded"

(* what the whitelist finds in the papers of the catalog *)
TitleMentionsOf == [id \in PaperIds |-> Mentions(Catalog[id].title)]

MetadataMentionsOf == [id \in PaperIds |-> MetadataMentions(Catalog[id])]

(* three harvested papers, all looked at: a is accepted on its title, b matches
   nothing and gets a positive vote, c matches nothing and gets a negative
   vote; every download and every summary succeeds *)
ThreePaperRun(a, b, c) ==
    /\ pc = "finished"
    /\ use_llm_filter /\ ~skip_gatekeeper /\ api_key /\ ~no_summary
    /\ Len(papers) = 3 /\ Len(plog) = 3
    /\ {a, b, c} = 1..3
    /\ TitleMentionsOf[papers[a]]
    /\ ~MetadataMentionsOf[papers[b]] /\ plog[b].chat = "True"
    /\ ~MetadataMentionsOf[papers[c]] /\ plog[c].chat = "False"
    /\ \A j \in 1..3 : plog[j].download # "raise" /\ plog[j].asset # "raise"
    /\ \A n \in 1..Len(sattempts) : sattempts[n].result = "ok"

(* C12: in that run accepted is 2 and Summary.md, empty before, holds exactly
   the two blocks of the accepted papers, in harvest order *)
C12_EndToEnd ==
    \A a \in 1..3, b \in 1..3, c \in 1..3 :
        ThreePaperRun(a, b, c) =>
            /\ accepted = 2
            /\ Len(downloaded) = 2
            /\ Len(summary_md) = 2
            /\ summary_md = IF a < b THEN <<a, b>> ELSE <<b, a>>

C12_Witness ==
    /\ ThreePaperRun(1, 3, 2)
    /\ accepted = 2
    /\ summary_md = <<1, 3>>

(* no vote, no chat completion and no level=llm in the loop so far *)
NoLlmUsed ==
    \A j \in 1..Len(plog) :
        /\ plog[j].votes = 0
        /\ plog[j].chat = "none"
        /\ plog[j].outcome.level # "llm"

DownloadedOk == {j \in 1..Len(plog) : plog[j].outcome.accepted /\ plog[j].download = "path"}

InDownloaded == {downloaded[n].paper : n \in 1..Len(downloaded)}

Attempted == {sattempts[n].paper : n \in 1..Len(sattempts)}

(* C7: exactly the filter-accepted papers whose download fails are left out of
   downloaded, of the accepted count and of the summary stage *)
C7_DownloadFailureIsolation ==
    /\ InDownloaded = DownloadedOk
    /\ accepted = Cardinality(DownloadedOk)
    /\ (pc = "finished" /\ SummaryEnabled(no_summary, api_key)) => Attempted = DownloadedOk

(* what the loop does: the papers left out are those whose download raised or
   whose image folder could not be made *)
C7_AsCoded ==
    LET kept == {j \in DownloadedOk : plog[j].asset # "raise"}
    IN /\ InDownloaded = kept
       /\ accepted = Cardinality(kept)
       /\ (pc = "finished" /\ SummaryEnabled(no_summary, api_key)) => Attempted = kept

(* C8: with summaries enabled and an API key, summarize_pdf is attempted for
   every entry of downloaded, in order, whatever the earlier attempts did *)
C8_EnrichmentFailureIsolation ==
    SummaryEnabled(no_summary, api_key) =>
        /\ Len(sattempts) = spos - 1
        /\ Len(sattempts) <= Len(downloaded)
        /\ \A n \in 1..Len(sattempts) : sattempts[n].paper = downloaded[n].paper
        /\ sattempts # <<>> => pc \in {"summary", "finished"}
        /\ pc = "finished" => Len(sattempts) = Len(downloaded)

C8_Witness ==
    /\ pc = "finished"
    /\ Len(sattempts) >= 2
    /\ sattempts[1].result = "raise"
    /\ sattempts[2].result = "ok"

(* C9: a cover image that could not be extracted leaves the paper in
   downloaded, with no cover image *)
C9_AssetFailureNotFatal ==
    \A j \in 1..Len(plog) :
        (plog[j].download = "path" /\ plog[j].asset \in {"None", "raise"}) =>
            /\ plog[j].stage = "downloaded"
            /\ \E n \in 1..Len(downloaded) :
                  downloaded[n].paper = j /\ downloaded[n].cover_image = Absent

(* the part of C9 the code satisfies: extract_first_page_image returned None *)
C9_AsCoded ==
    \A j \in 1..Len(plog) :
        (plog[j].download = "path" /\ plog[j].asset = "None") =>
            /\ plog[j].stage = "downloaded"
            /\ \E n \in 1..Len(downloaded) :
                  downloaded[n].paper = j /\ downloaded[n].cover_image = Absent

(* C10: with a limit L >= 1 accepted never exceeds L, the loop is over once
   accepted reaches L, and what was accepted stays and is summarized *)
C10_AcceptLimit ==
    limit >= 1 =>
        /\ accepted <= limit
        /\ accepted = limit =>
              /\ pc # "loop"
              /\ Len(plog) = pos
              /\ plog[pos].stage = "downloaded"
        /\ Len(downloaded) = accepted
        /\ (pc = "finished" /\ SummaryEnabled(no_summary, api_key))
              => Len(sattempts) = accepted

C10_Witness ==
    /\ limit >= 1
    /\ accepted = limit
    /\ pc = "finished"
    /\ Len(plog) < Len(papers)
    /\ Len(sattempts) = limit

(* C16: after every iteration and at the end of the loop, accepted is the
   number of entries of downloaded, the entries are distinct elements of the
   harvested list in harvest order, and each one had an accepted filter
   outcome and a download that returned a path *)
C16_LoopInvariant ==
    /\ accepted = Len(downloaded)
    /\ \A a \in 1..Len(downloaded) :
          \A b \in 1..Len(downloaded) :
              a < b => downloaded[a].paper < downloaded[b].paper
    /\ \A a \in 1..Len(downloaded) :
          LET j == downloaded[a].paper
          IN /\ j \in 1..Len(papers)
             /\ j \in 1..Len(plog)
             /\ downloaded[a].outcome.accepted
             /\ plog[j].outcome = downloaded[a].outcome
             /\ plog[j].download = "path"
             /\ plog[j].stage = "downloaded"

(* two entries with a paper between them that was not appended, loop over *)
C16_Witness ==
    /\ pc = "summary"
    /\ Len(downloaded) = 2
    /\ downloaded[1].paper = 1
    /\ downloaded[2].paper = 3
    /\ plog[2].stage = "failed-download"

(* ---------------- properties of the whole run (SpecRun) ---------------- *)

(* a page request of this run failed *)
PageFailed == \E n \in 1..Len(reqs) : feed[n] = PageFails

(* C11: a failed page request, on whatever page, ends search without a list
   and the run without any paper classified, downloaded or summarized *)
C11_PageFailureAbortsRun ==
    PageFailed =>
        /\ spc = "raised"
        /\ feed[Len(reqs)] = PageFails
        /\ pc \in {"harvest", "aborted"}
        /\ papers = <<>>
        /\ plog = <<>>
        /\ accepted = 0
        /\ downloaded = <<>>
        /\ sattempts = <<>>
        /\ summary_md = <<>>

C11_Witness ==
    /\ PageFailed
    /\ Len(reqs) >= 2
    /\ spapers # <<>>
    /\ pc = "aborted"

(* ---------------- specifications ---------------- *)

SearchSpecInit == SearchInit /\ GateIdle /\ MainIdle

SpecSearch == SearchSpecInit /\ [][SearchNext]_vars

(* search is sequential code: an iteration that can run does run *)
SpecSearchFair == SearchSpecInit /\ [][SearchNext]_vars /\ WF_vars(SearchNext)

GateSpecInit == GateInit /\ SearchIdle /\ MainIdle

GateNext == GateFilter

SpecGate == GateSpecInit /\ [][GateNext]_vars

Init == MainInit /\ SearchIdle /\ GateIdle

Next ==
    \/ Harvest
    \/ HarvestRaises
    \/ LoopKeywordSkip
    \/ LoopFilterSkip
    \/ LoopDownloadFails
    \/ LoopAccept
    \/ LoopEnd
    \/ SummarySkipped
    \/ SummarizePaper
    \/ SummaryEnd

Spec == Init /\ [][Next]_vars

(* the whole run is explored with the gatekeeper and the LLM filter on, no
   limit and summaries asked for; the other flags vary *)
RunMainInit ==
    /\ use_llm_filter = TRUE
    /\ skip_gatekeeper = FALSE
    /\ require_keyword_match \in BOOLEAN
    /\ limit = 0
    /\ no_summary = FALSE
    /\ api_key \in BOOLEAN
    /\ papers = <<>>
    /\ pos = 1
    /\ accepted = 0
    /\ downloaded = <<>>
    /\ plog = <<>>
    /\ spos = 1
    /\ sattempts = <<>>
    /\ summary_md = <<>>
    /\ pc = "harvest"

RunInit == RunSearchInit /\ RunMainInit /\ GateIdle

RunNext ==
    \/ SearchReturn
    \/ SearchFetchFails
    \/ SearchFetch
    \/ RunHarvest
    \/ RunHarvestRaises
    \/ LoopKeywordSkip
    \/ LoopFilterSkip
    \/ LoopDownloadFails
    \/ LoopAccept
    \/ LoopEnd
    \/ SummarySkipped
    \/ SummarizePaper
    \/ SummaryEnd

SpecRun == RunInit /\ [][RunNext]_vars

====
